---- MODULE Spec2Model ----
(***************************************************************************)
(* The mutating admission webhook of cmstate-injector-operator             *)
(* (webhook/webhook.go): one invocation of Handle per admission request,   *)
(* suspended only at its calls to the cluster's object store.              *)
(*                                                                         *)
(* Go strings that the code transforms (template names, annotation values, *)
(* CMState names) are sequences of one-character strings, "" being <<>>.   *)
(* Pod names, namespaces and annotation keys are only compared, and are    *)
(* TLA+ strings.                                                           *)
(***************************************************************************)
EXTENDS Integers, Sequences, FiniteSets, TLC

VARIABLES
    store,       \* the CMState objects the cluster's object store holds
    pc,          \* per invocation: where the handler stands
    req,         \* per invocation: the admission request
    pod,         \* per invocation: the decoded Pod (handleInner's pod)
    cmState,     \* per invocation: handleInner's cmState
    cmTemplate,  \* per invocation: handleInner's cmTemplate
    resp,        \* per invocation: the admission response Handle returns
    calls,       \* per invocation: the store calls issued so far, in order
    store0,      \* per invocation: the store as it was when the request arrived
    last         \* the request answered last (kept by SpecLast only)

vars == <<store, pc, req, pod, cmState, cmTemplate, resp, calls, store0, last>>

----------------------------------------------------------------------------
(* Bounds *)

\* longest audience of a CMState that is in the store before the first request
MaxAud == 2
\* number of requests SpecLast admits
MaxRequests == 2
\* longest template name generateName is tried on
MaxLen == 3

----------------------------------------------------------------------------
(* Strings *)

UpperCase == <<"A","B","C","D","E","F","G","H","I","J","K","L","M",
               "N","O","P","Q","R","S","T","U","V","W","X","Y","Z">>
LowerCase == <<"a","b","c","d","e","f","g","h","i","j","k","l","m",
               "n","o","p","q","r","s","t","u","v","w","x","y","z">>

\* strings.ToLower, on the ASCII letters
ToLower(s) ==
    [i \in 1..Len(s) |->
        IF \E j \in 1..Len(UpperCase) : UpperCase[j] = s[i]
        THEN LowerCase[CHOOSE j \in 1..Len(UpperCase) : UpperCase[j] = s[i]]
        ELSE s[i]]

\* strings.ReplaceAll(s, old, new) for one-character old and new
ReplaceAll(s, old, new) ==
    [i \in 1..Len(s) |-> IF s[i] = old THEN new ELSE s[i]]

\* fmt.Sprintf("cmstate-%s", name)
Sprintf(name) == <<"c","m","s","t","a","t","e","-">> \o name

generateNameNoLower(cmTemplateName) ==
    ReplaceAll(Sprintf(cmTemplateName), "_", "-")

generateName(cmTemplateName) ==
    ToLower(ReplaceAll(Sprintf(cmTemplateName), "_", "-"))

----------------------------------------------------------------------------
(* Objects *)

TemplateAnnotation == "cache.spices.dev/cmtemplate"
TrackingAnnotation == "vault.hashicorp.com/agent-configmap"

\* a Go map read at a key: the zero value "" when the key is absent
Lookup(m, k) == IF k \in DOMAIN m THEN m[k] ELSE <<>>

EmptyMap == [k \in {} |-> <<>>]

\* m with m[k] = v
MapSet(m, k, v) == [x \in DOMAIN m \cup {k} |-> IF x = k THEN v ELSE m[x]]

\* &corev1.Pod{}
ZeroPod == [namespace |-> "", name |-> "", generateName |-> "",
            annotations |-> EmptyMap]

\* &cachev1alpha1.CMState{}
ZeroCMState == [name |-> <<>>, namespace |-> "", labels |-> EmptyMap,
                audience |-> <<>>, cmTemplate |-> <<>>, resourceVersion |-> 0]

\* &cachev1alpha1.CMTemplate{}
ZeroCMTemplate == [name |-> <<>>, annotationReplace |-> {}]

----------------------------------------------------------------------------
(* The cluster: the CMTemplates it holds, and the requests it sends *)

\* "Foo_Bar" and "foo-bar" in short: two template names with one derived name
TFooBar == <<"F", "_", "b">>
Tfoobar == <<"f", "-", "b">>
\* a name no CMTemplate of the cluster has
TMissing == <<"z">>

\* the CMTemplates of the cluster (cluster-scoped; the webhook only reads them)
ClusterTemplates ==
    { [name |-> TFooBar, annotationReplace |-> {"k1"}],
      [name |-> Tfoobar, annotationReplace |-> {}] }

Namespaces == {"ns1", "ns2"}

\* <<name, generateName>> of a Pod: named, generated and not yet named (as at
\* its creation), generated and named (as at its deletion)
PodNamings == {<<"a", "">>, <<"", "g">>, <<"a", "g">>}

AnnotationKeys == {TemplateAnnotation, TrackingAnnotation, "k1"}

AnnotationValues(k) ==
    CASE k = TemplateAnnotation -> {<<>>, TFooBar, Tfoobar, TMissing}
      [] k = TrackingAnnotation -> {<<"o">>, generateName(TFooBar)}
      [] OTHER -> {<<"v">>}

AnnotationMaps(keys) ==
    UNION { { m \in [D -> UNION {AnnotationValues(k) : k \in keys}] :
                \A k \in D : m[k] \in AnnotationValues(k) } :
            D \in SUBSET keys }

PodsOver(keys) ==
    { [namespace |-> ns, name |-> nm[1], generateName |-> nm[2],
       annotations |-> a] :
        ns \in Namespaces, nm \in PodNamings, a \in AnnotationMaps(keys) }

Pods == PodsOver(AnnotationKeys)

\* a request whose raw object does not decode into a Pod
Malformed == [namespace |-> "", name |-> "", generateName |-> "",
              annotations |-> [k \in {"malformed"} |-> <<>>]]

\* the operations the webhook is registered for, and one it is not
Operations == {"CREATE", "DELETE", "UPDATE"}

Requests == [operation : Operations, object : Pods \cup {Malformed}]

\* the requests of SpecLast: creations and deletions of Pods that carry the
\* template annotation or none
PlainRequests ==
    [operation : {"CREATE", "DELETE"}, object : PodsOver({TemplateAnnotation})]

NoRequest == [operation |-> "", object |-> ZeroPod]

\* the names an audience entry can carry
AudienceNames ==
    ({nm[1] : nm \in PodNamings} \cup {nm[2] : nm \in PodNamings}) \ {""}

SeqsUpTo(S, n) == UNION { [1..k -> S] : k \in 0..n }

\* the CMStates the store may hold before the first request
InitialCMStates ==
    { [name |-> generateName(TFooBar), namespace |-> "ns1", labels |-> EmptyMap,
       audience |-> [i \in DOMAIN names |-> [kind |-> "Pod", name |-> names[i]]],
       cmTemplate |-> TFooBar, resourceVersion |-> 1] :
        names \in SeqsUpTo(AudienceNames, MaxAud) }

----------------------------------------------------------------------------
(* The object store, as the client sees it *)

Nil == "nil"
\* failures of a store call that the store's contents do not decide
Failures == {"backendError", "ctxError"}
Outcomes == {"ok"} \cup Failures

StoreFind(s, namespace, name) ==
    { o \in s : o.namespace = namespace /\ o.name = name }

\* Client.Get of a CMState: <<err, object>>
StoreGet(s, namespace, name, into) ==
    IF StoreFind(s, namespace, name) = {}
    THEN <<"notFound", into>>
    ELSE <<Nil, CHOOSE o \in StoreFind(s, namespace, name) : TRUE>>

\* Client.Get of a CMTemplate (cluster-scoped): <<err, object>>
TemplateGet(name, into) ==
    IF \E t \in ClusterTemplates : t.name = name
    THEN <<Nil, CHOOSE t \in ClusterTemplates : t.name = name>>
    ELSE <<"notFound", into>>

StoreCreateUnguarded(s, obj) ==
    LET made == [obj EXCEPT !.resourceVersion = 1]
    IN  <<Nil, s \cup {made}, made>>

\* Client.Create: <<err, store, object>>
StoreCreate(s, obj) ==
    IF StoreFind(s, obj.namespace, obj.name) # {}
    THEN <<"alreadyExists", s, obj>>
    ELSE LET made == [obj EXCEPT !.resourceVersion = 1]
         IN  <<Nil, s \cup {made}, made>>

\* the body of a client.Merge patch: the object itself, marshalled
MergePatchData(obj) ==
    [labels |-> obj.labels, audience |-> obj.audience,
     cmTemplate |-> obj.cmTemplate, resourceVersion |-> obj.resourceVersion]

StorePatchReaping(s, obj) ==
    IF StoreFind(s, obj.namespace, obj.name) = {}
    THEN <<"notFound", s, obj>>
    ELSE LET cur == CHOOSE o \in StoreFind(s, obj.namespace, obj.name) : TRUE
             new == [cur EXCEPT !.audience = obj.audience,
                                !.resourceVersion = cur.resourceVersion + 1]
         IN  IF obj.resourceVersion # cur.resourceVersion
             THEN <<"conflict", s, obj>>
             ELSE IF obj.audience = <<>>
             THEN <<Nil, s \ {cur}, new>>
             ELSE <<Nil, (s \ {cur}) \cup {new}, new>>

\* Client.Patch(ctx, obj, client.Merge): <<err, store, object>>.  The body carries
\* the resourceVersion that was read, which the store checks against its own.
StorePatch(s, obj) ==
    IF StoreFind(s, obj.namespace, obj.name) = {}
    THEN <<"notFound", s, obj>>
    ELSE LET cur  == CHOOSE o \in StoreFind(s, obj.namespace, obj.name) : TRUE
             data == MergePatchData(obj)
             new  == [cur EXCEPT
                        !.labels = [k \in DOMAIN cur.labels \cup DOMAIN data.labels |->
                                      IF k \in DOMAIN data.labels
                                      THEN data.labels[k] ELSE cur.labels[k]],
                        !.audience = data.audience,
                        !.cmTemplate = data.cmTemplate,
                        !.resourceVersion = cur.resourceVersion + 1]
         IN  IF data.resourceVersion # cur.resourceVersion
             THEN <<"conflict", s, obj>>
             ELSE <<Nil, (s \ {cur}) \cup {new}, new>>

----------------------------------------------------------------------------
(* Admission responses *)

StatusOK == 200
StatusForbidden == 403
StatusInternalServerError == 500

\* a JSON patch (RFC 6902) on the Pod's annotations: what turns `from` into `to`.
\* (The diff of the re-marshalled Pod's other fields is not modelled.)
JSONPatch(from, to) ==
    { [op |-> "add", path |-> k, value |-> to[k]] :
        k \in DOMAIN to \ DOMAIN from }
    \cup { [op |-> "replace", path |-> k, value |-> to[k]] :
        k \in {x \in DOMAIN to \cap DOMAIN from : to[x] # from[x]} }
    \cup { [op |-> "remove", path |-> k, value |-> <<>>] :
        k \in DOMAIN from \ DOMAIN to }

\* admission.Allowed(reason)
Allowed(reason) ==
    [allowed |-> TRUE, code |-> StatusOK, reason |-> reason, patches |-> {}]

\* admission.Denied(reason)
Denied(reason) ==
    [allowed |-> FALSE, code |-> StatusForbidden, reason |-> reason, patches |-> {}]

\* admission.Errored(code, err)
Errored(code, err) ==
    [allowed |-> FALSE, code |-> code, reason |-> err, patches |-> {}]

\* admission.PatchResponseFromRaw(original, current)
PatchResponseFromRaw(original, current) ==
    [allowed |-> TRUE, code |-> 0, reason |-> "",
     patches |-> JSONPatch(original.annotations, current.annotations)]

\* a nil *admission.Response
NilResponse == [allowed |-> FALSE, code |-> 0, reason |-> Nil, patches |-> {}]

----------------------------------------------------------------------------
(* The webhook's functions *)

findIndexLast(slice, name) ==
    IF \E i \in 1..Len(slice) : slice[i].name = name
    THEN (CHOOSE i \in 1..Len(slice) :
            /\ slice[i].name = name
            /\ \A j \in (i+1)..Len(slice) : slice[j].name # name) - 1
    ELSE -1

\* findIndex: the (0-based) index of the first entry named `name`, or -1
findIndex(slice, name) ==
    IF \E i \in 1..Len(slice) : slice[i].name = name
    THEN (CHOOSE i \in 1..Len(slice) :
            /\ slice[i].name = name
            /\ \A j \in 1..(i-1) : slice[j].name # name) - 1
    ELSE -1

\* append(slice[:index], slice[index+1:]...)
RemoveAt(slice, index) ==
    SubSeq(slice, 1, index) \o SubSeq(slice, index + 2, Len(slice))

generateCMStateNamespaceless(template, p) ==
    [name |-> generateName(template.name),
     namespace |-> "",
     labels |-> [k \in template.annotationReplace |-> Lookup(p.annotations, k)],
     audience |-> << [kind |-> "Pod",
                      name |-> IF p.name = "" THEN p.generateName ELSE p.name] >>,
     cmTemplate |-> template.name,
     resourceVersion |-> 0]

generateCMStateTwice(template, p) ==
    LET entry == [kind |-> "Pod",
                  name |-> IF p.name = "" THEN p.generateName ELSE p.name]
    IN  [name |-> generateName(template.name),
         namespace |-> p.namespace,
         labels |-> [k \in template.annotationReplace |-> Lookup(p.annotations, k)],
         audience |-> <<entry, entry>>,
         cmTemplate |-> template.name,
         resourceVersion |-> 0]

generateCMStatePresentOnly(template, p) ==
    [name |-> generateName(template.name),
     namespace |-> p.namespace,
     labels |-> [k \in template.annotationReplace \cap DOMAIN p.annotations |->
                    p.annotations[k]],
     audience |-> << [kind |-> "Pod",
                      name |-> IF p.name = "" THEN p.generateName ELSE p.name] >>,
     cmTemplate |-> template.name,
     resourceVersion |-> 0]

\* generateCMState
generateCMState(template, p) ==
    LET labels  == [k \in template.annotationReplace |-> Lookup(p.annotations, k)]
        podName == IF p.name = "" THEN p.generateName ELSE p.name
    IN  [name |-> generateName(template.name),
         namespace |-> p.namespace,
         labels |-> labels,
         audience |-> << [kind |-> "Pod", name |-> podName] >>,
         cmTemplate |-> template.name,
         resourceVersion |-> 0]

HandleKeepsResponse(r, err) ==
    IF r # NilResponse THEN r ELSE Errored(StatusInternalServerError, err)

\* Handle, given what handleInner returned
Handle(r, err) ==
    IF err # Nil THEN Errored(StatusInternalServerError, err) ELSE r

HasTemplateAnnotationKey(p) == TemplateAnnotation \in DOMAIN p.annotations

\* handleInner: whether the Pod names a template
HasTemplateAnnotation(p) == Lookup(p.annotations, TemplateAnnotation) # <<>>

\* handleInner: whether the CMState lookup's error ends the request
CMStateGetFails(err) == err # Nil /\ err # "notFound"

CMTemplateGetFailsUnlessNotFound(err) == err # Nil /\ err # "notFound"

\* handleInner: whether the CMTemplate lookup's error ends the request
CMTemplateGetFails(err) == (err # Nil /\ err # "notFound") \/ err # Nil

\* handlePodDelete: the name looked for in the audience
deletePodName(p) == IF p.generateName # "" THEN p.generateName ELSE p.name

handlePodDeleteRetemplating(state, p) ==
    IF state.name = <<>>
    THEN [call |-> "none", cmState |-> state,
          resp |-> Allowed("skipping cmstate patch due to missing cmstate")]
    ELSE LET index == findIndex(state.audience, deletePodName(p))
         IN  IF index = -1
             THEN [call |-> "none", cmState |-> state,
                   resp |-> Allowed("skipping cmstate patch due to pod not in audience")]
             ELSE [call |-> "patch",
                   cmState |-> [state EXCEPT !.audience = RemoveAt(state.audience, index),
                                             !.cmTemplate = Lookup(p.annotations, TemplateAnnotation),
                                             !.labels = [k \in DOMAIN state.labels |-> <<"x">>]],
                   resp |-> NilResponse]

\* handlePodDelete, up to its call of Client.Patch
handlePodDelete(state, p) ==
    IF state.name = <<>>
    THEN [call |-> "none", cmState |-> state,
          resp |-> Allowed("skipping cmstate patch due to missing cmstate")]
    ELSE LET index == findIndex(state.audience, deletePodName(p))
         IN  IF index = -1
             THEN [call |-> "none", cmState |-> state,
                   resp |-> Allowed("skipping cmstate patch due to pod not in audience")]
             ELSE [call |-> "patch",
                   cmState |-> [state EXCEPT !.audience = RemoveAt(state.audience, index)],
                   resp |-> NilResponse]

\* handlePodDelete, from the return of Client.Patch: <<resp, err>>
handlePodDeletePatched(err) ==
    IF err # Nil
    THEN <<Denied("patching cmstate has resulted in an error"), err>>
    ELSE <<Allowed("cmstate has been patched, no need to mutate pod"), Nil>>

AlwaysCreate(state) == TRUE

\* handlePodCreate: whether the CMState is to be created
MustCreate(state) == state.name = <<>>

\* handlePodCreate, from the CMState being there: the Pod as mutated
SetTrackingAnnotation(p, state) ==
    [p EXCEPT !.annotations = MapSet(p.annotations, TrackingAnnotation, state.name)]

----------------------------------------------------------------------------
(* Invocations of Handle.  Each is stateless and has its own locals; the   *)
(* hosting server may run several at once.                                 *)

Handlers == {"h1", "h2"}

\* the one invocation that runs when requests are admitted one after another
Serial == {"h1"}

TypeOK ==
    /\ pc \in [Handlers -> {"idle", "getCMState", "getCMTemplate", "create",
                            "patch", "done"}]
    /\ \A h \in Handlers : resp[h].allowed \in BOOLEAN
    /\ \A o \in store : \A q \in store :
          (o.namespace = q.namespace /\ o.name = q.name) => o = q

NoEntry == [operation |-> "", object |-> ZeroPod, resp |-> NilResponse,
            verbs |-> {}, errs |-> {}, before |-> {}, nth |-> 0]

InitLocals ==
    /\ pc = [h \in Handlers |-> "idle"]
    /\ req = [h \in Handlers |-> NoRequest]
    /\ pod = [h \in Handlers |-> ZeroPod]
    /\ cmState = [h \in Handlers |-> ZeroCMState]
    /\ cmTemplate = [h \in Handlers |-> ZeroCMTemplate]
    /\ resp = [h \in Handlers |-> NilResponse]
    /\ calls = [h \in Handlers |-> <<>>]
    /\ store0 = [h \in Handlers |-> {}]
    /\ last = NoEntry

\* the store holds nothing, or one CMState made earlier
Init ==
    /\ store \in {{}} \cup {{o} : o \in InitialCMStates}
    /\ InitLocals

InitEmpty ==
    /\ store = {}
    /\ InitLocals

\* the invocation returns r, err from handleInner: Handle answers
Finish(h, r, err) ==
    /\ resp' = [resp EXCEPT ![h] = Handle(r, err)]
    /\ pc' = [pc EXCEPT ![h] = "done"]

Called(h, verb, kind, namespace, name, err) ==
    calls' = [calls EXCEPT ![h] = Append(@,
                [verb |-> verb, kind |-> kind, namespace |-> namespace,
                 name |-> name, err |-> err])]

\* Handle and handleInner up to the first store call: decode the request's
\* object and look for the template annotation
Receive(h, requests) ==
    /\ pc[h] = "idle"
    /\ \E r \in requests :
        /\ req' = [req EXCEPT ![h] = r]
        /\ store0' = [store0 EXCEPT ![h] = store]
        /\ IF r.object = Malformed
           THEN /\ Finish(h, NilResponse, "decode")
                /\ UNCHANGED pod
           ELSE /\ pod' = [pod EXCEPT ![h] = r.object]
                /\ IF HasTemplateAnnotation(r.object)
                   THEN /\ pc' = [pc EXCEPT ![h] = "getCMState"]
                        /\ UNCHANGED resp
                   ELSE Finish(h,
                          Allowed("skipping cmstate check due to missing annotation"),
                          Nil)
    /\ UNCHANGED <<store, cmState, cmTemplate, calls, last>>

\* handleInner: Client.Get of the CMState
GetCMState(h) ==
    /\ pc[h] = "getCMState"
    /\ \E outcome \in Outcomes :
        LET crdName == generateName(Lookup(pod[h].annotations, TemplateAnnotation))
            got == IF outcome = "ok"
                   THEN StoreGet(store, pod[h].namespace, crdName, cmState[h])
                   ELSE <<outcome, cmState[h]>>
        IN  /\ Called(h, "Get", "CMState", pod[h].namespace, crdName, got[1])
            /\ cmState' = [cmState EXCEPT ![h] = got[2]]
            /\ IF CMStateGetFails(got[1])
               THEN Finish(h, NilResponse, got[1])
               ELSE /\ pc' = [pc EXCEPT ![h] = "getCMTemplate"]
                    /\ UNCHANGED resp
    /\ UNCHANGED <<store, req, pod, cmTemplate, store0, last>>

\* handleInner: Client.Get of the CMTemplate, and then handlePodCreate or
\* handlePodDelete up to its store call
GetCMTemplate(h) ==
    /\ pc[h] = "getCMTemplate"
    /\ \E outcome \in Outcomes :
        LET name == Lookup(pod[h].annotations, TemplateAnnotation)
            got  == IF outcome = "ok"
                    THEN TemplateGet(name, cmTemplate[h])
                    ELSE <<outcome, cmTemplate[h]>>
            del  == handlePodDelete(cmState[h], pod[h])
            tracked == SetTrackingAnnotation(pod[h], cmState[h])
        IN  /\ Called(h, "Get", "CMTemplate", "", name, got[1])
            /\ cmTemplate' = [cmTemplate EXCEPT ![h] = got[2]]
            /\ IF CMTemplateGetFails(got[1])
               THEN /\ Finish(h, NilResponse, got[1])
                    /\ UNCHANGED <<cmState, pod>>
               ELSE IF req[h].operation = "CREATE"
               THEN IF MustCreate(cmState[h])
                    THEN /\ cmState' = [cmState EXCEPT ![h] =
                                          generateCMState(got[2], pod[h])]
                         /\ pc' = [pc EXCEPT ![h] = "create"]
                         /\ UNCHANGED <<resp, pod>>
                    ELSE /\ pod' = [pod EXCEPT ![h] = tracked]
                         /\ Finish(h, PatchResponseFromRaw(req[h].object, tracked), Nil)
                         /\ UNCHANGED cmState
               ELSE IF req[h].operation = "DELETE"
               THEN /\ cmState' = [cmState EXCEPT ![h] = del.cmState]
                    /\ UNCHANGED pod
                    /\ IF del.call = "patch"
                       THEN /\ pc' = [pc EXCEPT ![h] = "patch"]
                            /\ UNCHANGED resp
                       ELSE Finish(h, del.resp, Nil)
               ELSE /\ Finish(h,
                         Allowed("skipping cmstate check due to missing annotation"),
                         Nil)
                    /\ UNCHANGED <<cmState, pod>>
    /\ UNCHANGED <<store, req, store0, last>>

\* handlePodCreate: Client.Create of the generated CMState, and the rest
CreateCMState(h) ==
    /\ pc[h] = "create"
    /\ \E outcome \in Outcomes :
        LET made == IF outcome = "ok"
                    THEN StoreCreate(store, cmState[h])
                    ELSE <<outcome, store, cmState[h]>>
            tracked == SetTrackingAnnotation(pod[h], made[3])
        IN  /\ Called(h, "Create", "CMState", cmState[h].namespace,
                      cmState[h].name, made[1])
            /\ store' = made[2]
            /\ cmState' = [cmState EXCEPT ![h] = made[3]]
            /\ IF made[1] # Nil
               THEN /\ Finish(h, Denied("creating cmstate has resulted in an error"),
                              made[1])
                    /\ UNCHANGED pod
               ELSE /\ pod' = [pod EXCEPT ![h] = tracked]
                    /\ Finish(h, PatchResponseFromRaw(req[h].object, tracked), Nil)
    /\ UNCHANGED <<req, cmTemplate, store0, last>>

\* handlePodDelete: Client.Patch of the CMState without the Pod, and the rest
PatchCMState(h) ==
    /\ pc[h] = "patch"
    /\ \E outcome \in Outcomes :
        LET patched == IF outcome = "ok"
                       THEN StorePatch(store, cmState[h])
                       ELSE <<outcome, store, cmState[h]>>
            out == handlePodDeletePatched(patched[1])
        IN  /\ Called(h, "Patch", "CMState", cmState[h].namespace,
                      cmState[h].name, patched[1])
            /\ store' = patched[2]
            /\ cmState' = [cmState EXCEPT ![h] = patched[3]]
            /\ Finish(h, out[1], out[2])
    /\ UNCHANGED <<req, pod, cmTemplate, store0, last>>

\* what is kept of an answered request
Entry(h) ==
    [operation |-> req[h].operation,
     object |-> req[h].object,
     resp |-> resp[h],
     verbs |-> {calls[h][i].verb : i \in DOMAIN calls[h]},
     errs |-> {calls[h][i].err : i \in DOMAIN calls[h]},
     before |-> store0[h],
     nth |-> last.nth + 1]

ResetLocals(h) ==
    /\ pc' = [pc EXCEPT ![h] = "idle"]
    /\ req' = [req EXCEPT ![h] = NoRequest]
    /\ pod' = [pod EXCEPT ![h] = ZeroPod]
    /\ cmState' = [cmState EXCEPT ![h] = ZeroCMState]
    /\ cmTemplate' = [cmTemplate EXCEPT ![h] = ZeroCMTemplate]
    /\ resp' = [resp EXCEPT ![h] = NilResponse]
    /\ calls' = [calls EXCEPT ![h] = <<>>]
    /\ store0' = [store0 EXCEPT ![h] = {}]

\* the response is sent: the invocation is over
Return(h) ==
    /\ pc[h] = "done"
    /\ ResetLocals(h)
    /\ UNCHANGED <<store, last>>

\* the same, the request being remembered
ReturnRemembered(h) ==
    /\ pc[h] = "done"
    /\ ResetLocals(h)
    /\ last' = Entry(h)
    /\ UNCHANGED store

\* requests admitted one after another, the store holding what Init says
Next ==
    \E h \in Serial :
        \/ Receive(h, Requests)
        \/ GetCMState(h)
        \/ GetCMTemplate(h)
        \/ CreateCMState(h)
        \/ PatchCMState(h)
        \/ Return(h)

Spec == Init /\ [][Next]_vars

\* the first MaxRequests requests of a cluster whose store is empty, admitted
\* one after another, the one answered last being remembered
NextLast ==
    \E h \in Serial :
        \/ last.nth < MaxRequests /\ Receive(h, PlainRequests)
        \/ GetCMState(h)
        \/ GetCMTemplate(h)
        \/ CreateCMState(h)
        \/ PatchCMState(h)
        \/ ReturnRemembered(h)

SpecLast == InitEmpty /\ [][NextLast]_vars

\* the characters of the template names generateName is tried on: an upper-case
\* and a lower-case letter, '_', '-', a digit, and '.'
Alphabet == {"A", "b", "_", "-", "1", "."}

\* the non-empty template names of up to MaxLen characters
TemplateNames == SeqsUpTo(Alphabet, MaxLen) \ {<<>>}

\* generateName applied to a template's name, as generateCMState does: the
\* template is in cmTemplate, the name made of it in cmState
NameCMState(h) ==
    /\ pc[h] = "idle"
    /\ cmTemplate[h] = ZeroCMTemplate
    /\ \E T \in TemplateNames :
        /\ cmTemplate' = [cmTemplate EXCEPT ![h] = [ZeroCMTemplate EXCEPT !.name = T]]
        /\ cmState' = [cmState EXCEPT ![h] = [ZeroCMState EXCEPT !.name = generateName(T)]]
    /\ UNCHANGED <<store, pc, req, pod, resp, calls, store0, last>>

NextName == \E h \in Serial : NameCMState(h)

SpecName == InitEmpty /\ [][NextName]_vars

\* two Pods of one generating controller, told apart by their UID: <<name,
\* generateName, uid>> as the Pod is when named by hand, when generated and not
\* yet named (at its creation), and when generated and named (at its deletion)
ConcNamings ==
    { <<"a", "", "u1">>, <<"", "g", "u1">>, <<"a", "g", "u1">>,
      <<"", "g", "u2">>, <<"b", "g", "u2">> }

\* the templates with one derived name
ConcTemplates == {TFooBar, Tfoobar}

ConcPods ==
    { [namespace |-> ns, name |-> nm[1], generateName |-> nm[2], uid |-> nm[3],
       annotations |-> [k \in {TemplateAnnotation} |-> t]] :
        ns \in Namespaces, nm \in ConcNamings, t \in ConcTemplates }

ConcRequests == [operation : {"CREATE", "DELETE"}, object : ConcPods]

\* two invocations, each of one request, in any interleaving of their steps
\* (one may be over before the other starts)
NextConc ==
    \E h \in Handlers :
        \/ Receive(h, ConcRequests)
        \/ GetCMState(h)
        \/ GetCMTemplate(h)
        \/ CreateCMState(h)
        \/ PatchCMState(h)

\* the store holding what Init says
SpecConc == Init /\ [][NextConc]_vars

\* the store holding nothing
SpecConcEmpty == InitEmpty /\ [][NextConc]_vars

----------------------------------------------------------------------------
(* What the properties speak of *)

\* the derived name as the design states it: "cmstate-" + lower(T), '_' -> '-'
DeriveName(T) == Sprintf(ReplaceAll(ToLower(T), "_", "-"))

\* the Pod's identifying name as the design states it: name, else generate-name
PodName(o) == IF o.name # "" THEN o.name ELSE o.generateName

\* the name the delete path looks for: generate-name, else name
DeleteName(o) == IF o.generateName # "" THEN o.generateName ELSE o.name

TemplateOf(o) == Lookup(o.annotations, TemplateAnnotation)

Done(h) == pc[h] = "done"
Decoded(h) == req[h].object # Malformed
Annotated(h) == Decoded(h) /\ TemplateOf(req[h].object) # <<>>

\* the state resources of store s at (ns, name)
At(s, ns, name) == {o \in s : o.namespace = ns /\ o.name = name}

\* the state resources the request of h is about, in store s
Mine(h, s) ==
    At(s, req[h].object.namespace, DeriveName(TemplateOf(req[h].object)))

Names(audience) == {audience[i].name : i \in DOMAIN audience}

TemplateExists(T) == \E t \in ClusterTemplates : t.name = T

Issued(h, verb) == \E i \in DOMAIN calls[h] : calls[h][i].verb = verb
Succeeded(h, verb) ==
    \E i \in DOMAIN calls[h] : calls[h][i].verb = verb /\ calls[h][i].err = Nil
NoWrite(h) == ~Issued(h, "Create") /\ ~Issued(h, "Patch")
Errs(h) == {calls[h][i].err : i \in DOMAIN calls[h]}

\* a lookup failed: the template's in any way, the state's other than not-found
LookupFailed(h) ==
    \E i \in DOMAIN calls[h] :
        /\ calls[h][i].verb = "Get"
        /\ \/ calls[h][i].kind = "CMTemplate" /\ calls[h][i].err # Nil
           \/ calls[h][i].kind = "CMState" /\ calls[h][i].err \notin {Nil, "notFound"}

\* both lookups were made and neither failed
LookedUp(h) ==
    /\ Issued(h, "Get")
    /\ \E i \in DOMAIN calls[h] : calls[h][i].kind = "CMTemplate"
    /\ ~LookupFailed(h)

InternalError(r) == ~r.allowed /\ r.code = StatusInternalServerError
DeniedOutcome(r) == ~r.allowed /\ r.code = StatusForbidden

\* the annotations of a Pod once the JSON patch is applied to them
ApplyPatch(annotations, patches) ==
    LET set     == {p \in patches : p.op \in {"add", "replace"}}
        removed == {p.path : p \in {q \in patches : q.op = "remove"}}
    IN  [k \in (DOMAIN annotations \cup {p.path : p \in set}) \ removed |->
            IF \E p \in set : p.path = k
            THEN (CHOOSE p \in set : p.path = k).value
            ELSE annotations[k]]

\* the tracking annotation of the Pod of request o once response r is applied
Tracked(o, r) == Lookup(ApplyPatch(o.annotations, r.patches), TrackingAnnotation)

\* slice without its first entry named name
WithoutFirst(slice, name) ==
    LET i == CHOOSE j \in 1..Len(slice) :
                 slice[j].name = name /\ \A k \in 1..(j-1) : slice[k].name # name
    IN  [j \in 1..(Len(slice) - 1) |-> IF j < i THEN slice[j] ELSE slice[j+1]]

----------------------------------------------------------------------------
(* C1: a request (of any operation) whose Pod has no template annotation,  *)
(* absent or empty, is answered Allowed with no patch, without any store   *)
(* call, and leaves the store as it was.                                   *)
C1_NoTemplateNoStoreAccess ==
    \A h \in Handlers :
        (Done(h) /\ Decoded(h) /\ TemplateOf(req[h].object) = <<>>) =>
            /\ calls[h] = <<>>
            /\ resp[h].allowed
            /\ resp[h].patches = {}
            /\ store = store0[h]

C1_Witness ==
    \E h \in Handlers :
        /\ Done(h) /\ Decoded(h)
        /\ req[h].operation = "DELETE"
        /\ TemplateAnnotation \in DOMAIN req[h].object.annotations
        /\ TemplateOf(req[h].object) = <<>>
        /\ resp[h].allowed
        /\ store # {}

(* C2: a Create of a Pod in namespace N naming an existing template T,     *)
(* no state resource being at (N, deriveName(T)) and the store's create    *)
(* succeeding, leaves exactly one state resource there, its audience the   *)
(* single entry {Pod, podName} and its templateRef T, and is answered      *)
(* Allowed with a patch after which the Pod's tracking annotation is       *)
(* deriveName(T).                                                          *)
C2_CreateMakesState ==
    \A h \in Handlers :
        (/\ Done(h) /\ Annotated(h)
         /\ req[h].operation = "CREATE"
         /\ TemplateExists(TemplateOf(req[h].object))
         /\ Mine(h, store0[h]) = {}
         /\ Succeeded(h, "Create")) =>
            /\ Cardinality(Mine(h, store)) = 1
            /\ \A o \in Mine(h, store) :
                  /\ o.audience = << [kind |-> "Pod", name |-> PodName(req[h].object)] >>
                  /\ o.cmTemplate = TemplateOf(req[h].object)
            /\ resp[h].allowed
            /\ Tracked(req[h].object, resp[h]) = DeriveName(TemplateOf(req[h].object))

C2_Witness ==
    \E h \in Handlers :
        /\ Done(h) /\ Annotated(h)
        /\ req[h].operation = "CREATE"
        /\ req[h].object.name = "" /\ req[h].object.namespace = "ns2"
        /\ TemplateOf(req[h].object) = TFooBar
        /\ Mine(h, store0[h]) = {}
        /\ Succeeded(h, "Create")
        /\ resp[h].patches # {}

(* C3: once a Create of a Pod that names a template is answered Allowed,   *)
(* a state resource is at (Pod namespace, deriveName(template)) and its    *)
(* audience has an entry named as the Pod.                                 *)
C3_CreateRegistersPod ==
    \A h \in Handlers :
        (Done(h) /\ Annotated(h) /\ req[h].operation = "CREATE" /\ resp[h].allowed) =>
            \E o \in Mine(h, store) : PodName(req[h].object) \in Names(o.audience)

(* C4: a Create of a Pod that names a template whose state resource is     *)
(* there already issues no store Create or Patch and leaves the state      *)
(* resource as it was; the state resource and the template having been     *)
(* read, it is answered Allowed with a patch after which the Pod's         *)
(* tracking annotation is the state resource's name.                       *)
C4_ExistingStateUntouched ==
    \A h \in Handlers :
        (/\ Done(h) /\ Annotated(h)
         /\ req[h].operation = "CREATE"
         /\ Mine(h, store0[h]) # {}) =>
            /\ NoWrite(h)
            /\ store = store0[h]
            /\ LookedUp(h) =>
                  /\ resp[h].allowed
                  /\ \A o \in Mine(h, store0[h]) :
                        Tracked(req[h].object, resp[h]) = o.name

C4_Witness ==
    \E h \in Handlers :
        /\ Done(h) /\ Annotated(h)
        /\ req[h].operation = "CREATE"
        /\ \E o \in Mine(h, store0[h]) :
              Len(o.audience) = 2 /\ PodName(req[h].object) \notin Names(o.audience)
        /\ LookedUp(h)
        /\ resp[h].allowed
        /\ resp[h].patches # {}

(* C5: a Delete of a Pod that names a template and whose identifying name  *)
(* (name, else generate-name) is in the audience of the state resource     *)
(* there is, no store call failing, leaves as the persisted audience the   *)
(* former one without its first entry of that name, the others in order    *)
(* (so a Pod created and then deleted leaves none), and is answered        *)
(* Allowed with no patch.                                                  *)
C5_DeleteRemovesPod ==
    \A h \in Handlers :
        (/\ Done(h) /\ Annotated(h)
         /\ req[h].operation = "DELETE"
         /\ \E o \in Mine(h, store0[h]) : PodName(req[h].object) \in Names(o.audience)
         /\ Errs(h) \subseteq {Nil}) =>
            /\ \A o \in Mine(h, store0[h]) :
                  \E n \in Mine(h, store) :
                      n.audience = WithoutFirst(o.audience, PodName(req[h].object))
            /\ resp[h].allowed
            /\ resp[h].patches = {}

(* C6: a Delete of a Pod that names a template and is in no audience (no   *)
(* state resource at the derived name, or none of its entries named as the *)
(* Pod: name, else generate-name), both lookups having succeeded, is       *)
(* answered Allowed and issues no store Create or Patch: the store is left *)
(* as it was.                                                              *)
C6_DeleteOfStrangerAllowed ==
    \A h \in Handlers :
        (/\ Done(h) /\ Annotated(h)
         /\ req[h].operation = "DELETE"
         /\ \A o \in Mine(h, store0[h]) : PodName(req[h].object) \notin Names(o.audience)
         /\ LookedUp(h)) =>
            /\ resp[h].allowed
            /\ NoWrite(h)
            /\ store = store0[h]

(* C7: a Create or Delete of a Pod that names a template, the template     *)
(* lookup returning not-found or failing, or the state lookup failing      *)
(* otherwise than with not-found, is answered with an internal error and   *)
(* issues no store write: no state resource is created, no audience        *)
(* changed.                                                                *)
C7_LookupFailureIsInternalError ==
    \A h \in Handlers :
        (/\ Done(h) /\ Annotated(h)
         /\ req[h].operation \in {"CREATE", "DELETE"}
         /\ LookupFailed(h)) =>
            /\ InternalError(resp[h])
            /\ NoWrite(h)
            /\ store = store0[h]

C7_Witness ==
    \E h \in Handlers :
        /\ Done(h) /\ Annotated(h)
        /\ req[h].operation = "CREATE"
        /\ Mine(h, store0[h]) = {}
        /\ Len(calls[h]) = 2
        /\ calls[h][2].kind = "CMTemplate" /\ calls[h][2].err = "notFound"
        /\ InternalError(resp[h])

(* C8: when the store write fails (the Create of the state resource, or    *)
(* the merge-patch of the audience), Handle answers with a denial, not an  *)
(* internal error, whose reason carries the underlying error, and with no  *)
(* patch.                                                                  *)
C8_WriteFailureIsDenied ==
    \A h \in Handlers :
        \A i \in DOMAIN calls[h] :
            (/\ Done(h)
             /\ calls[h][i].verb \in {"Create", "Patch"}
             /\ calls[h][i].err # Nil) =>
                /\ DeniedOutcome(resp[h])
                /\ ~InternalError(resp[h])
                /\ resp[h].patches = {}

(* C9: when the request's context is cancelled or times out and a store    *)
(* call (Get of the state, Get of the template, Create, Patch) fails for   *)
(* it, the answer is an internal error: never Allowed, never a denial.     *)
C9_CancelledIsInternalError ==
    \A h \in Handlers :
        (Done(h) /\ "ctxError" \in Errs(h)) =>
            /\ InternalError(resp[h])
            /\ ~resp[h].allowed
            /\ ~DeniedOutcome(resp[h])

C9_Witness ==
    \E h \in Handlers :
        /\ Done(h)
        /\ Len(calls[h]) = 3
        /\ calls[h][3].verb = "Patch" /\ calls[h][3].err = "ctxError"
        /\ InternalError(resp[h])

(* C10: two Creates admitted one after the other, for one Pod twice or for *)
(* two Pods of one namespace, that name one existing template of which no  *)
(* state resource was there, the store answering every call: the second    *)
(* issues no store Create, exactly one state resource is at the derived    *)
(* name, and both are answered Allowed with a patch after which the        *)
(* tracking annotation has the same value.                                 *)
C10_SecondCreateReuses ==
    \A h \in Handlers :
        (/\ Done(h) /\ Annotated(h)
         /\ req[h].operation = "CREATE" /\ last.operation = "CREATE"
         /\ req[h].object.namespace = last.object.namespace
         /\ TemplateOf(req[h].object) = TemplateOf(last.object)
         /\ TemplateExists(TemplateOf(req[h].object))
         /\ Mine(h, last.before) = {}
         /\ (last.errs \cup Errs(h)) \cap Failures = {}) =>
            /\ ~Issued(h, "Create")
            /\ Cardinality(Mine(h, store)) = 1
            /\ last.resp.allowed /\ resp[h].allowed
            /\ Tracked(req[h].object, resp[h]) = Tracked(last.object, last.resp)
            /\ Tracked(req[h].object, resp[h]) = DeriveName(TemplateOf(req[h].object))

C10_Witness ==
    \E h \in Handlers :
        /\ Done(h) /\ Annotated(h)
        /\ req[h].operation = "CREATE" /\ last.operation = "CREATE"
        /\ req[h].object.namespace = last.object.namespace
        /\ req[h].object.name # last.object.name
        /\ TemplateOf(req[h].object) = TemplateOf(last.object)
        /\ TemplateExists(TemplateOf(req[h].object))
        /\ Mine(h, last.before) = {}
        /\ "Create" \in last.verbs
        /\ resp[h].allowed /\ last.resp.allowed

----------------------------------------------------------------------------
(* Two invocations at once *)

\* the state lookup of h found nothing
ReadAbsent(h) ==
    /\ Len(calls[h]) >= 1
    /\ calls[h][1].kind = "CMState" /\ calls[h][1].err = "notFound"

\* h and g are answered requests of `operation` for one namespace and one template
SameTarget(h, g, operation) ==
    /\ Done(h) /\ Done(g)
    /\ req[h].operation = operation /\ req[g].operation = operation
    /\ req[h].object.namespace = req[g].object.namespace
    /\ TemplateOf(req[h].object) = TemplateOf(req[g].object)

\* the store failed no call of h for a reason of its own
Answered(h) == Errs(h) \cap Failures = {}

(* C11: two Creates at once for Pods of one namespace that name one        *)
(* template, both having read the state resource as absent and the store   *)
(* answering every call: under every interleaving exactly one store Create *)
(* succeeds, exactly one state resource is there afterwards, its audience  *)
(* the single entry of the winner's Pod; the winner is answered Allowed    *)
(* with a patch setting the tracking annotation, the loser, whose Create   *)
(* met the already-exists conflict, is not Allowed and gets no patch.      *)
C11_CreateRaceOneWinner ==
    \A h \in Handlers : \A g \in Handlers \ {h} :
        (/\ SameTarget(h, g, "CREATE")
         /\ ReadAbsent(h) /\ ReadAbsent(g)
         /\ Answered(h) /\ Answered(g)) =>
            /\ Succeeded(h, "Create") # Succeeded(g, "Create")
            /\ Cardinality(Mine(h, store)) = 1
            /\ Succeeded(h, "Create") =>
                  /\ \A o \in Mine(h, store) :
                        o.audience = <<[kind |-> "Pod", name |-> PodName(req[h].object)]>>
                  /\ resp[h].allowed
                  /\ Tracked(req[h].object, resp[h]) = DeriveName(TemplateOf(req[h].object))
                  /\ "alreadyExists" \in Errs(g)
                  /\ ~resp[g].allowed
                  /\ resp[g].patches = {}

C11_Witness ==
    \E h \in Handlers : \E g \in Handlers \ {h} :
        /\ SameTarget(h, g, "CREATE")
        /\ ReadAbsent(h) /\ ReadAbsent(g)
        /\ req[h].object.uid # req[g].object.uid
        /\ PodName(req[h].object) # PodName(req[g].object)
        /\ Succeeded(h, "Create")
        /\ "alreadyExists" \in Errs(g)
        /\ resp[h].allowed /\ ~resp[g].allowed

(* C12: the handler never deletes a state resource: under any sequence and *)
(* interleaving of Creates and Deletes, a state resource that is at        *)
(* (namespace, derived name) is there in every later state, a Delete that  *)
(* removes its only audience entry leaving it with an empty audience.      *)
C12_NeverDeletes ==
    [][\A o \in store :
          \E n \in store' : n.namespace = o.namespace /\ n.name = o.name]_vars

C12_Witness ==
    \E h \in Handlers :
        /\ Done(h)
        /\ req[h].operation = "DELETE"
        /\ Succeeded(h, "Patch")
        /\ \E o \in Mine(h, store0[h]) : Len(o.audience) = 1
        /\ \E n \in Mine(h, store) : n.audience = <<>>

----------------------------------------------------------------------------
(* Names *)

Digits == {"0", "1", "2", "3", "4", "5", "6", "7", "8", "9"}
LowerLetters == {LowerCase[i] : i \in DOMAIN LowerCase}
UpperLetters == {UpperCase[i] : i \in DOMAIN UpperCase}

\* lower(T) with '_' replaced by '-'
Normalised(T) == ReplaceAll(ToLower(T), "_", "-")

\* s matches cmstate-[a-z0-9-]+
MatchesPattern(s) ==
    /\ Len(s) > Len(Sprintf(<<>>))
    /\ SubSeq(s, 1, Len(Sprintf(<<>>))) = Sprintf(<<>>)
    /\ \A i \in (Len(Sprintf(<<>>)) + 1)..Len(s) :
          s[i] \in LowerLetters \cup Digits \cup {"-"}

\* a template name has been put to generateName by h
Named(h) == cmTemplate[h].name # <<>>

(* C13: for every template name T (upper-case letters, '_', '-', digits,   *)
(* and other characters such as '.'), the derived name of T is the derived *)
(* name of lower(T) with '_' replaced by '-', and it matches               *)
(* cmstate-[a-z0-9-]+.                                                     *)
C13_DerivedNameMatchesPattern ==
    \A h \in Serial :
        Named(h) =>
            /\ cmState[h].name = generateName(Normalised(cmTemplate[h].name))
            /\ MatchesPattern(cmState[h].name)

(* C13 as amended: for every template name T, the derived name of T is the *)
(* derived name of lower(T) with '_' replaced by '-'; it is "cmstate-"     *)
(* followed by T with its upper-case letters lowered and its '_' replaced  *)
(* by '-', every other character ('.' too) kept as it is; and it matches   *)
(* cmstate-[a-z0-9-]+ when T is made of letters, digits, '_' and '-'.      *)
C13_DerivedNameNormalised ==
    \A h \in Serial :
        Named(h) =>
            LET T == cmTemplate[h].name
                n == cmState[h].name
            IN  /\ n = generateName(Normalised(T))
                /\ n = Sprintf(Normalised(T))
                /\ \A i \in 1..Len(T) :
                      /\ n[Len(Sprintf(<<>>)) + i] \notin UpperLetters \cup {"_"}
                      /\ T[i] \notin UpperLetters \cup {"_"} =>
                            n[Len(Sprintf(<<>>)) + i] = T[i]
                /\ (\A i \in 1..Len(T) :
                        T[i] \in UpperLetters \cup LowerLetters \cup Digits \cup {"_", "-"})
                      => MatchesPattern(n)

C13_Witness ==
    \E h \in Serial :
        /\ cmTemplate[h].name = <<"A", "_", ".">>
        /\ cmState[h].name = Sprintf(<<"a", "-", ".">>)
        /\ ~MatchesPattern(cmState[h].name)

----------------------------------------------------------------------------
(* The Pod's name in the audience *)

\* the name a Create of Pod o registers: the one generateCMState puts in the
\* audience
Registered(o) == generateCMState(ZeroCMTemplate, o).audience[1].name

(* C14: the delete path searches the audience for the Pod's name when it   *)
(* is non-empty and for its generate-name only otherwise, the rule of the  *)
(* create path: for every Pod, one with both a name and a generate-name    *)
(* too, a Delete searches for the very name a Create of that Pod object    *)
(* would have registered, so it patches the state resource exactly when    *)
(* that name is in its audience.                                           *)
C14_DeleteSearchesRegisteredName ==
    \A h \in Handlers :
        (/\ Done(h) /\ Annotated(h)
         /\ req[h].operation = "DELETE"
         /\ LookedUp(h)) =>
            /\ Registered(req[h].object) = PodName(req[h].object)
            /\ \A o \in Mine(h, store0[h]) :
                  Issued(h, "Patch") <=>
                      findIndex(o.audience, Registered(req[h].object)) # -1

(* C15: in every state reached from an empty store, under any sequence and *)
(* interleaving of Creates and Deletes, the entries of every state         *)
(* resource's audience have pairwise distinct names and are all of kind    *)
(* 'Pod'.                                                                  *)
C15_AudienceNamesDistinct ==
    \A o \in store :
        /\ \A i \in DOMAIN o.audience : \A j \in DOMAIN o.audience :
              o.audience[i].name = o.audience[j].name => i = j
        /\ \A i \in DOMAIN o.audience : o.audience[i].kind = "Pod"

C15_Witness ==
    \E h \in Handlers : \E g \in Handlers \ {h} :
        /\ SameTarget(h, g, "CREATE")
        /\ req[h].object.uid # req[g].object.uid
        /\ Registered(req[h].object) = Registered(req[g].object)
        /\ resp[h].allowed /\ resp[g].allowed
        /\ \E o \in Mine(h, store) :
              o.audience = <<[kind |-> "Pod", name |-> Registered(req[h].object)]>>

(* C16: once a state resource is created its templateRef and its labels    *)
(* never change: every later Create or Delete the webhook handles, a       *)
(* Delete that patches the audience too, leaves them as they were.         *)
C16_TemplateRefAndLabelsKept ==
    [][\A o \in store : \A n \in store' :
          (n.namespace = o.namespace /\ n.name = o.name) =>
              (n.cmTemplate = o.cmTemplate /\ n.labels = o.labels)]_vars

C16_Witness ==
    \E h \in Handlers :
        /\ Done(h)
        /\ req[h].operation = "DELETE"
        /\ Succeeded(h, "Patch")
        /\ store # store0[h]
        /\ \E o \in Mine(h, store0[h]) : \E n \in Mine(h, store) :
              /\ DOMAIN o.labels # {}
              /\ n.audience # o.audience
              /\ n.labels = o.labels /\ n.cmTemplate = o.cmTemplate
              /\ n.cmTemplate # TemplateOf(req[h].object)

----------------------------------------------------------------------------
(* Labels *)

\* h's Create has made the state resource n
Made(h, n) ==
    /\ Done(h) /\ Annotated(h)
    /\ req[h].operation = "CREATE"
    /\ Succeeded(h, "Create")
    /\ n \in Mine(h, store)

(* C17: the labels of a newly created state resource are the Pod's         *)
(* annotations intersected with the template's replace-set: the label keys *)
(* are exactly the replace-set keys the Pod carries, each label's value    *)
(* the Pod's annotation value at its key; a replace-set key the Pod does   *)
(* not carry makes no label.                                               *)
C17_LabelsAreIntersection ==
    \A h \in Handlers : \A n \in store :
        Made(h, n) =>
            /\ DOMAIN n.labels =
                  cmTemplate[h].annotationReplace \cap DOMAIN req[h].object.annotations
            /\ \A k \in DOMAIN n.labels : n.labels[k] = req[h].object.annotations[k]

(* C17 as amended: the label keys of a newly created state resource are    *)
(* exactly the keys of the template's replace-set; each label's value is   *)
(* the Pod's annotation value at its key, and the empty string for a key   *)
(* the Pod does not carry.                                                 *)
C17_LabelsAreReplaceSet ==
    \A h \in Handlers : \A n \in store :
        Made(h, n) =>
            /\ DOMAIN n.labels = cmTemplate[h].annotationReplace
            /\ \A k \in DOMAIN n.labels :
                  n.labels[k] = IF k \in DOMAIN req[h].object.annotations
                                THEN req[h].object.annotations[k]
                                ELSE <<>>

C17_Witness ==
    \E h \in Handlers : \E n \in store :
        /\ Made(h, n)
        /\ "k1" \in cmTemplate[h].annotationReplace
        /\ "k1" \notin DOMAIN req[h].object.annotations
        /\ n.labels["k1"] = <<>>

----------------------------------------------------------------------------
(* Leaving the audience *)

\* h and g are answered Deletes of two Pods that were both in the audience of
\* one state resource, `name` giving the name a Pod is in the audience by
BothLeave(h, g, name(_)) ==
    /\ Done(h) /\ Done(g)
    /\ req[h].operation = "DELETE" /\ req[g].operation = "DELETE"
    /\ req[h].object.namespace = req[g].object.namespace
    /\ DeriveName(TemplateOf(req[h].object)) = DeriveName(TemplateOf(req[g].object))
    /\ name(req[h].object) # name(req[g].object)
    /\ \A k \in {h, g} : \E o \in Mine(k, store0[k]) :
          {name(req[h].object), name(req[g].object)} \subseteq Names(o.audience)
    /\ resp[h].allowed /\ resp[g].allowed

NoLostUpdateOfSearchedNames ==
    \A h \in Handlers : \A g \in Handlers \ {h} :
        BothLeave(h, g, DeleteName) =>
            \A o \in Mine(h, store) :
                {DeleteName(req[h].object), DeleteName(req[g].object)}
                    \cap Names(o.audience) = {}

(* C19: an audience entry leaves only by its registrant: it is removed     *)
(* only by the Delete of the Pod whose Create registered it; of two Pods   *)
(* that share a generate-name (replicas of one controller, their assigned  *)
(* names distinct when deleted), the Delete of one never removes the entry *)
(* while the other is live.                                                *)
C19_LeaveOnlyByRegistrant ==
    \A h \in Handlers : \A g \in Handlers \ {h} :
        (/\ Done(h) /\ Done(g)
         /\ req[h].operation = "CREATE" /\ Succeeded(h, "Create")
         /\ req[g].operation = "DELETE" /\ Succeeded(g, "Patch")
         /\ req[h].object.namespace = req[g].object.namespace
         /\ DeriveName(TemplateOf(req[h].object)) = DeriveName(TemplateOf(req[g].object))
         /\ \E o \in Mine(g, store0[g]) :
               Registered(req[h].object) \in Names(o.audience)
         /\ \A n \in Mine(g, store) :
               Registered(req[h].object) \notin Names(n.audience)) =>
            req[g].object.uid = req[h].object.uid

----------------------------------------------------------------------------
(* The template of the state resource a Pod is pointed at *)

(* C20: naming links a Pod to its own template: for every Create answered  *)
(* Allowed with a patch, the state resource the injected tracking          *)
(* annotation names has the Pod's template annotation value as its         *)
(* templateRef, also when two existing templates have one derived name     *)
(* ('Foo_Bar' and 'foo-bar') and Pods naming each are created in one       *)
(* namespace.                                                              *)
C20_TrackedStateIsOfOwnTemplate ==
    \A h \in Handlers :
        (/\ Done(h) /\ Annotated(h)
         /\ req[h].operation = "CREATE"
         /\ resp[h].allowed /\ resp[h].patches # {}) =>
            /\ At(store, req[h].object.namespace, Tracked(req[h].object, resp[h])) # {}
            /\ \A o \in At(store, req[h].object.namespace,
                             Tracked(req[h].object, resp[h])) :
                  o.cmTemplate = TemplateOf(req[h].object)

====
